---- MODULE Spec2Model ----
(***************************************************************************)
(* Model of the two CDK stacks of the repository: AWSstack (VPC, security  *)
(* groups, RDS, ALB, autoscaling fleet, outputs) and Ec2LoggingStack       *)
(* (VPC, instance, log group, bucket, log-shipping function).  Each        *)
(* statement of a stack constructor is one step of graph assembly; the     *)
(* graph is then handed to the external provisioning engine.               *)
(***************************************************************************)
EXTENDS FiniteSets, Integers, Naturals, Sequences, TLC

VARIABLES program, run, phase, pc, spc, apps, stacks, handed, q, eng, attrs,
          store, rendered, cmds, script, blob, split

\* program   the entry point the process runs ("web", "logging"; "script" for
\*           the script generator on its own)
\* run       how many times the process has been started
\* phase     "assembly" (the entry point and constructors run), "engine"
\*           (external reconciliation), "idle"; for the script generator
\*           "forLinux", "addCommands", "render", "split", "read"
\* pc        the statement of the entry point to run next
\* spc       the statement of the constructor to run next, 0 outside one
\* apps      the number of App objects constructed in the process
\* stacks    the stacks constructed in the process, each with its graph
\* handed    every graph handed to the engine so far, in order
\* q         the index in handed of the graph the engine works on
\* eng       the engine's state of each node of that graph
\* attrs     the concrete attribute values of resolved nodes
\* store     the graph last reconciled
\* rendered  the outputs rendered for each reconciled graph
\* cmds      the command list passed to the script generator
\* script    the lines held by the user data object
\* blob      the rendered script
\* split     the blob read back line by line
vars == <<program, run, phase, pc, spc, apps, stacks, handed, q, eng, attrs,
          store, rendered, cmds, script, blob, split>>

procVars == <<program, run, phase, pc, spc, apps, stacks, handed, q, eng, attrs,
              store, rendered>>
scriptVars == <<cmds, script, blob, split>>

\* ---------------------------------------------------------------- bounds
\* how many times the process is started against the same engine store
MaxRuns == 2
\* longest command list drawn for the script generator
MaxCmds == 3
\* longest command line drawn for the script generator
MaxLineLen == 1

\* ------------------------------------------------------- literal values
AnyIpv4 == "0.0.0.0/0"
NL == "\n"
ONE_WEEK == 7
AllEvents == ""

\* ------------------------------------------------- AWSstack constructor
WebVpc ==
  << [op |-> "Vpc", id |-> "MyAppVPC", maxAzs |-> 2, natGateways |-> 2,
      groups |-> << [name |-> "PublicSubnet", type |-> "PUBLIC"],
                    [name |-> "PrivateSubnet", type |-> "PRIVATE_WITH_EGRESS"] >>] >>

WebSecurityGroups ==
  << [op |-> "New", id |-> "ALBSecurityGroup", kind |-> "security-rule",
      refs |-> {<<"vpc", "MyAppVPC">>}, sgs |-> {}, place |-> "NONE",
      publicIp |-> FALSE, nums |-> {}, strs |-> {}],
     [op |-> "addIngressRule", sg |-> "ALBSecurityGroup", peerKind |-> "cidr",
      peer |-> AnyIpv4, port |-> 80, description |-> "Allow HTTP from Internet"],
     [op |-> "New", id |-> "EC2SecurityGroup", kind |-> "security-rule",
      refs |-> {<<"vpc", "MyAppVPC">>}, sgs |-> {}, place |-> "NONE",
      publicIp |-> FALSE, nums |-> {}, strs |-> {}],
     [op |-> "addIngressRule", sg |-> "EC2SecurityGroup", peerKind |-> "sg",
      peer |-> "ALBSecurityGroup", port |-> 80, description |-> "Allow HTTP from ALB"],
     [op |-> "New", id |-> "RDSSecurityGroup", kind |-> "security-rule",
      refs |-> {<<"vpc", "MyAppVPC">>}, sgs |-> {}, place |-> "NONE",
      publicIp |-> FALSE, nums |-> {}, strs |-> {}],
     [op |-> "addIngressRule", sg |-> "RDSSecurityGroup", peerKind |-> "sg",
      peer |-> "EC2SecurityGroup", port |-> 3306,
      description |-> "Allow MySQL access from EC2"] >>

WebSecret ==
  << [op |-> "New", id |-> "DBSecret", kind |-> "identity",
      refs |-> {}, sgs |-> {}, place |-> "NONE", publicIp |-> FALSE, nums |-> {},
      strs |-> {<<"generateStringKey", "password">>}] >>

WebDatabase ==
  << [op |-> "New", id |-> "DBSubnetGroup", kind |-> "database",
      refs |-> {<<"vpc", "MyAppVPC">>}, sgs |-> {}, place |-> "PRIVATE_WITH_EGRESS",
      publicIp |-> FALSE, nums |-> {},
      strs |-> {<<"subnetGroupName", "PrivateSubnetGroup">>}],
     [op |-> "New", id |-> "MyRDSInstance", kind |-> "database",
      refs |-> {<<"vpc", "MyAppVPC">>, <<"credentials", "DBSecret">>,
                <<"subnetGroup", "DBSubnetGroup">>},
      sgs |-> {"RDSSecurityGroup"}, place |-> "PRIVATE_WITH_EGRESS",
      publicIp |-> FALSE,
      nums |-> {<<"allocatedStorage", 20>>, <<"maxAllocatedStorage", 100>>},
      strs |-> {<<"databaseName", "wordpressdb">>, <<"engine", "mysql8.0">>}] >>

WebAlb ==
  << [op |-> "New", id |-> "MyALB", kind |-> "load-balancer",
      refs |-> {<<"vpc", "MyAppVPC">>}, sgs |-> {"ALBSecurityGroup"},
      place |-> "PUBLIC", publicIp |-> TRUE, nums |-> {},
      strs |-> {<<"loadBalancerName", "MyWordPressALB">>}] >>

WebRole ==
  << [op |-> "New", id |-> "EC2Role", kind |-> "identity",
      refs |-> {}, sgs |-> {}, place |-> "NONE", publicIp |-> FALSE, nums |-> {},
      strs |-> {<<"assumedBy", "ec2.amazonaws.com">>}],
     [op |-> "addManagedPolicy", role |-> "EC2Role",
      policy |-> "AmazonSSMManagedInstanceCore"] >>

\* the comment lines of the script, written in Japanese in the source, are
\* given here in ASCII; every other line is the literal of the source
WebCommands ==
  << "#!/bin/bash",
     "# 1. update packages",
     "yum update -y",
     "# 2. install and enable Apache",
     "yum install -y httpd",
     "systemctl enable httpd",
     "systemctl start httpd",
     "# 3. write a Hello World page",
     "echo \"<html><h1>Hello World</h1></html>\" > /var/www/html/index.html",
     "# 4. permissions and owner",
     "chown apache:apache /var/www/html/index.html",
     "chmod 644 /var/www/html/index.html" >>

WebUserData ==
  << [op |-> "forLinux"],
     [op |-> "addCommands", lines |-> WebCommands] >>

\* WebAsg with the balancer's group passed as the fleet's security group
WebAsgWrongGroup ==
  << [op |-> "New", id |-> "WordPressASG", kind |-> "compute",
      refs |-> {<<"vpc", "MyAppVPC">>, <<"role", "EC2Role">>},
      sgs |-> {"ALBSecurityGroup"}, place |-> "PRIVATE_WITH_EGRESS",
      publicIp |-> FALSE,
      nums |-> {<<"desiredCapacity", 2>>, <<"minCapacity", 2>>, <<"maxCapacity", 4>>},
      strs |-> {<<"instanceType", "t3.micro">>}] >>

WebAsg ==
  << [op |-> "New", id |-> "WordPressASG", kind |-> "compute",
      refs |-> {<<"vpc", "MyAppVPC">>, <<"role", "EC2Role">>},
      sgs |-> {"EC2SecurityGroup"}, place |-> "PRIVATE_WITH_EGRESS",
      publicIp |-> FALSE,
      nums |-> {<<"desiredCapacity", 2>>, <<"minCapacity", 2>>, <<"maxCapacity", 4>>},
      strs |-> {<<"instanceType", "t3.micro">>}] >>

WebListener ==
  << [op |-> "addListener", lb |-> "MyALB", id |-> "HTTPListener", port |-> 80,
      open |-> TRUE],
     [op |-> "addTargets", listener |-> "HTTPListener", id |-> "WordPressFleet",
      port |-> 80, targets |-> {"WordPressASG"}] >>

\* WebOutputs with the two value references exchanged
WebOutputsSwapped ==
  << [op |-> "CfnOutput", id |-> "LoadBalancerDNS", node |-> "MyRDSInstance",
      attr |-> "dbInstanceEndpointAddress"],
     [op |-> "CfnOutput", id |-> "DBEndpoint", node |-> "MyALB",
      attr |-> "loadBalancerDnsName"] >>

WebOutputs ==
  << [op |-> "CfnOutput", id |-> "LoadBalancerDNS", node |-> "MyALB",
      attr |-> "loadBalancerDnsName"],
     [op |-> "CfnOutput", id |-> "DBEndpoint", node |-> "MyRDSInstance",
      attr |-> "dbInstanceEndpointAddress"] >>

AWSstack ==
  WebVpc \o WebSecurityGroups \o WebSecret \o WebDatabase \o WebAlb \o WebRole
    \o WebUserData \o WebAsg \o WebListener \o WebOutputs

\* ------------------------------------------ Ec2LoggingStack constructor
LogVpc ==
  << [op |-> "Vpc", id |-> "AppVPC", maxAzs |-> 2, natGateways |-> 0,
      groups |-> << [name |-> "public", type |-> "PUBLIC"] >>] >>

LogRole ==
  << [op |-> "New", id |-> "EC2Role", kind |-> "identity",
      refs |-> {}, sgs |-> {}, place |-> "NONE", publicIp |-> FALSE, nums |-> {},
      strs |-> {<<"assumedBy", "ec2.amazonaws.com">>}],
     [op |-> "addManagedPolicy", role |-> "EC2Role",
      policy |-> "CloudWatchAgentServerPolicy"],
     [op |-> "addManagedPolicy", role |-> "EC2Role",
      policy |-> "CloudWatchAgentServerPolicy"] >>

LogLogGroup ==
  << [op |-> "New", id |-> "AppLogGroup", kind |-> "log-group",
      refs |-> {}, sgs |-> {}, place |-> "NONE", publicIp |-> FALSE,
      nums |-> {<<"retention", ONE_WEEK>>},
      strs |-> {<<"logGroupName", "/ec2/app/logs">>}] >>

LogSecurityGroup ==
  << [op |-> "New", id |-> "WebSG", kind |-> "security-rule",
      refs |-> {<<"vpc", "AppVPC">>}, sgs |-> {}, place |-> "NONE",
      publicIp |-> FALSE, nums |-> {}, strs |-> {}],
     [op |-> "addIngressRule", sg |-> "WebSG", peerKind |-> "cidr",
      peer |-> AnyIpv4, port |-> 80, description |-> "Allow HTTP traffic"],
     [op |-> "addIngressRule", sg |-> "WebSG", peerKind |-> "cidr",
      peer |-> AnyIpv4, port |-> 22, description |-> "Allow SSH"],
     [op |-> "addIngressRule", sg |-> "WebSG", peerKind |-> "cidr",
      peer |-> AnyIpv4, port |-> 443, description |-> "Allow HTTPS traffic"] >>

LogCommands ==
  << "yum update -y",
     "yum install -y httpd amazon-cloudwatch-agent",
     "systemctl start httpd",
     "systemctl enable httpd",
     "echo \"<html><head><title>Hello</title></head><body><h1>Hello World</h1></body></html>\" > /var/www/html/index.html",
     "cat <<EOF > /opt/aws/amazon-cloudwatch-agent/bin/config.json",
     "{",
     "  \"logs\": {",
     "    \"logs_collected\": {",
     "      \"files\": {",
     "        \"collect_list\": [",
     "          {",
     "            \"file_path\": \"/var/log/httpd/access_log\",",
     "            \"log_group_name\": \"/ec2/app/logs\",",
     "            \"log_stream_name\": \"{instance_id}/access_log\",",
     "            \"timestamp_format\": \"%d/%b/%Y:%H:%M:%S %z\"",
     "          },",
     "          {",
     "            \"file_path\": \"/var/log/httpd/error_log\",",
     "            \"log_group_name\": \"/ec2/app/logs\",",
     "            \"log_stream_name\": \"{instance_id}/error_log\",",
     "            \"timestamp_format\": \"%Y/%m/%d %H:%M:%S\"",
     "          }",
     "        ]",
     "      }",
     "    }",
     "  }",
     "}",
     "EOF",
     "/opt/aws/amazon-cloudwatch-agent/bin/amazon-cloudwatch-agent-ctl -a fetch-config -m ec2 -c file:/opt/aws/amazon-cloudwatch-agent/bin/config.json -s" >>

LogUserData ==
  << [op |-> "forLinux"],
     [op |-> "addCommands", lines |-> LogCommands] >>

LogInstance ==
  << [op |-> "New", id |-> "AppInstance", kind |-> "compute",
      refs |-> {<<"vpc", "AppVPC">>, <<"role", "EC2Role">>},
      sgs |-> {"WebSG"}, place |-> "PUBLIC", publicIp |-> TRUE, nums |-> {},
      strs |-> {<<"instanceType", "t3.micro">>}] >>

LogBucket ==
  << [op |-> "New", id |-> "LogStorageBucket", kind |-> "storage",
      refs |-> {}, sgs |-> {}, place |-> "NONE", publicIp |-> FALSE,
      nums |-> {<<"expirationDays", 30>>, <<"noncurrentVersionExpirationDays", 30>>},
      strs |-> {<<"versioned", "true">>, <<"removalPolicy", "DESTROY">>}] >>

LogLambdaRole ==
  << [op |-> "New", id |-> "LambdaRole", kind |-> "identity",
      refs |-> {}, sgs |-> {}, place |-> "NONE", publicIp |-> FALSE, nums |-> {},
      strs |-> {<<"assumedBy", "lambda.amazonaws.com">>}],
     [op |-> "addManagedPolicy", role |-> "LambdaRole",
      policy |-> "service-role/AWSLambdaBasicExecutionRole"],
     [op |-> "addToPolicy", role |-> "LambdaRole", action |-> "s3:PutObject",
      resource |-> "LogStorageBucket"] >>

LogProcessor ==
  << [op |-> "New", id |-> "LogProcessor", kind |-> "function",
      refs |-> {<<"role", "LambdaRole">>, <<"BUCKET_NAME", "LogStorageBucket">>},
      sgs |-> {}, place |-> "NONE", publicIp |-> FALSE,
      nums |-> {<<"timeoutSeconds", 30>>},
      strs |-> {<<"runtime", "python3.9">>, <<"handler", "index.handler">>}],
     [op |-> "grantWrite", bucket |-> "LogStorageBucket", grantee |-> "LogProcessor"] >>

\* LogFilter with a literal pattern in place of allEvents()
LogFilterErrorsOnly ==
  << [op |-> "New", id |-> "LogFilter", kind |-> "log-group",
      refs |-> {<<"logGroup", "AppLogGroup">>, <<"destination", "LogProcessor">>},
      sgs |-> {}, place |-> "NONE", publicIp |-> FALSE, nums |-> {},
      strs |-> {<<"filterPattern", "ERROR">>}],
     [op |-> "applyRemovalPolicy", node |-> "AppLogGroup", policy |-> "DESTROY"] >>

LogFilter ==
  << [op |-> "New", id |-> "LogFilter", kind |-> "log-group",
      refs |-> {<<"logGroup", "AppLogGroup">>, <<"destination", "LogProcessor">>},
      sgs |-> {}, place |-> "NONE", publicIp |-> FALSE, nums |-> {},
      strs |-> {<<"filterPattern", AllEvents>>}],
     [op |-> "applyRemovalPolicy", node |-> "AppLogGroup", policy |-> "DESTROY"] >>

Ec2LoggingStack ==
  LogVpc \o LogRole \o LogLogGroup \o LogSecurityGroup \o LogUserData
    \o LogInstance \o LogBucket \o LogLambdaRole \o LogProcessor \o LogFilter

\* the constructor body of a stack class
Body(cls) == IF cls = "AWSstack" THEN AWSstack ELSE Ec2LoggingStack

\* ------------------------------------------------------- entry points
\* bin/2.ts: the import of lib/ec2_logging_stack runs that module's top level
\* (lines 136-139) before the statements of bin/2.ts itself (lines 4-7)
LoggingMain ==
  << [op |-> "NewApp"], [op |-> "NewStack", cls |-> "Ec2LoggingStack"],
     [op |-> "NewApp"], [op |-> "NewStack", cls |-> "Ec2LoggingStack"] >>

\* the entry point that instantiates AWSstack once in one application
WebMain ==
  << [op |-> "NewApp"], [op |-> "NewStack", cls |-> "AWSstack"] >>

Main(p) == IF p = "web" THEN WebMain ELSE LoggingMain

\* ------------------------------------------------------ resource graph
Range(f) == {f[i] : i \in DOMAIN f}

\* an initial graph that carries a parameter taken from the process state
EmptyGraphStamped ==
  [nodes |-> {}, refs |-> {}, strs |-> {},
   nums |-> {<<"stack", "uniqueId", 10 * run + apps>>}, rules |-> {},
   subnets |-> {}, hasUserData |-> FALSE, userData |-> <<>>, outputs |-> {}]

\* the graph of a stack right after super(scope, id, props)
EmptyGraph ==
  [nodes |-> {}, refs |-> {}, strs |-> {}, nums |-> {}, rules |-> {},
   subnets |-> {}, hasUserData |-> FALSE, userData |-> <<>>, outputs |-> {}]

Ids(g) == {n.id : n \in g.nodes}

NodeOf(g, id) == CHOOSE n \in g.nodes : n.id = id

\* third octet of the /24 block of subnet group gi (1-based) in zone az
SubnetCidr(gi, az, maxAzs) == (gi - 1) * maxAzs + (az - 1)

\* the subnets a Vpc statement declares: one per group and zone
VpcSubnets(s) ==
  {[vpc |-> s.id, group |-> s.groups[gi].name, type |-> s.groups[gi].type,
    az |-> az, cidr |-> SubnetCidr(gi, az, s.maxAzs)] :
      gi \in DOMAIN s.groups, az \in 1..s.maxAzs}

\* an ingress rule whose source is the VPC address range, whatever the peer
IngressRuleCidr(s) ==
  [sg |-> s.sg, peerKind |-> "cidr", peer |-> "10.0.0.0/16", port |-> s.port,
   description |-> s.description]

\* the ingress rule an addIngressRule statement declares
IngressRule(s) ==
  [sg |-> s.sg, peerKind |-> s.peerKind, peer |-> s.peer, port |-> s.port,
   description |-> s.description]

\* open: true lets any address reach the listener port of the balancer
ListenerRules(g, s) ==
  IF s.open
    THEN {[sg |-> sg, peerKind |-> "cidr", peer |-> AnyIpv4, port |-> s.port,
           description |-> "Allow from anyone on port"] :
             sg \in NodeOf(g, s.lb).sgs}
    ELSE {}

\* the balancer of a listener
BalancerOf(g, listener) ==
  CHOOSE lb \in Ids(g) : <<listener, "loadBalancer", lb>> \in g.refs

\* registering targets opens each target's group to any address
TargetRulesOpen(g, s) ==
  {[sg |-> sg, peerKind |-> "cidr", peer |-> AnyIpv4, port |-> s.port,
    description |-> "Load balancer to target"] :
      sg \in UNION {NodeOf(g, t).sgs : t \in s.targets}}

\* registering targets lets the balancer's group reach each target's group
TargetRules(g, s) ==
  {[sg |-> sg, peerKind |-> "sg", peer |-> lbsg, port |-> s.port,
    description |-> "Load balancer to target"] :
      sg \in UNION {NodeOf(g, t).sgs : t \in s.targets},
      lbsg \in NodeOf(g, BalancerOf(g, s.listener)).sgs}

\* addTargets that also makes each target reference the listener
TargetRefsBack(s) ==
  {<<s.listener, "targetGroup", s.id>>} \cup
  {<<s.id, "target", t>> : t \in s.targets} \cup
  {<<t, "listener", s.listener>> : t \in s.targets}

\* the edges addTargets declares: listener -> target group -> each target
TargetRefs(s) ==
  {<<s.listener, "targetGroup", s.id>>} \cup
  {<<s.id, "target", t>> : t \in s.targets}

\* the output a CfnOutput statement registers
OutputOf(s) == [name |-> s.id, node |-> s.node, attr |-> s.attr]

\* the node a construct statement declares
NodeRec(s) ==
  [id |-> s.id, kind |-> s.kind, place |-> s.place, publicIp |-> s.publicIp,
   sgs |-> s.sgs]

\* dependency edges of a graph: parameter references, attached security
\* groups, and security-group sources of ingress rules
Deps(g) ==
  {<<r[1], r[3]>> : r \in g.refs}
    \cup UNION {{<<n.id, sg>> : sg \in n.sgs} : n \in g.nodes}
    \cup {<<r.sg, r.peer>> : r \in {x \in g.rules : x.peerKind = "sg"}}

\* ----------------------------------------------- bootstrap script text
Reverse(L) == [i \in 1..Len(L) |-> L[Len(L) + 1 - i]]

\* addCommands that puts each command in front of the lines
AddCommandsPrepend(lines, commands) == Reverse(commands) \o lines

\* UserData.addCommands(...commands): the commands are appended in order
AddCommands(lines, commands) == lines \o commands

\* the characters command lines are drawn from
Chars == {"a", "b"}

\* a literal command line of the source as one newline-free chunk of text
Chunks(L) == [i \in DOMAIN L |-> <<L[i]>>]

\* all texts over a set of characters up to length n
RECURSIVE Texts(_, _)
Texts(S, n) ==
  IF n = 0 THEN {<<>>}
  ELSE Texts(S, n - 1) \cup {Append(t, c) : t \in {x \in Texts(S, n - 1) : Len(x) = n - 1},
                                             c \in S}

\* the script blob: the lines joined by newlines
RECURSIVE RenderScript(_)
RenderScript(lines) ==
  IF lines = <<>> THEN <<>>
  ELSE IF Len(lines) = 1 THEN lines[1]
  ELSE lines[1] \o <<NL>> \o RenderScript(Tail(lines))

\* a blob split on line boundaries
RECURSIVE SplitLines(_)
SplitLines(b) ==
  IF \A i \in DOMAIN b : b[i] # NL THEN <<b>>
  ELSE LET i == CHOOSE k \in DOMAIN b : b[k] = NL /\ \A m \in 1..(k - 1) : b[m] # NL
       IN  <<SubSeq(b, 1, i - 1)>> \o SplitLines(SubSeq(b, i + 1, Len(b)))

\* ------------------------------------------------------ graph assembly
Cur == stacks[Len(stacks)]

Stmt == Body(Cur.cls)[spc]

At(op) ==
  /\ phase = "assembly"
  /\ spc >= 1
  /\ spc <= Len(Body(Cur.cls))
  /\ Stmt.op = op

Put(g) ==
  /\ stacks' = [stacks EXCEPT ![Len(stacks)].g = g]
  /\ spc' = spc + 1
  /\ UNCHANGED <<program, run, phase, pc, apps, handed, q, eng, attrs, store,
                 rendered, scriptVars>>

\* const app = new App()
NewApp ==
  /\ phase = "assembly"
  /\ spc = 0
  /\ pc <= Len(Main(program))
  /\ Main(program)[pc].op = "NewApp"
  /\ apps' = apps + 1
  /\ pc' = pc + 1
  /\ UNCHANGED <<program, run, phase, spc, stacks, handed, q, eng, attrs, store,
                 rendered, scriptVars>>

\* new <Stack>(app, id, props): super(scope, id, props), then the body
NewStack ==
  /\ phase = "assembly"
  /\ spc = 0
  /\ pc <= Len(Main(program))
  /\ Main(program)[pc].op = "NewStack"
  /\ stacks' = Append(stacks, [cls |-> Main(program)[pc].cls, app |-> apps,
                               g |-> EmptyGraph])
  /\ spc' = 1
  /\ UNCHANGED <<program, run, phase, pc, apps, handed, q, eng, attrs, store,
                 rendered, scriptVars>>

\* new ec2.Vpc(this, id, {maxAzs, natGateways, subnetConfiguration})
NewVpc ==
  /\ At("Vpc")
  /\ Put([Cur.g EXCEPT
            !.nodes = @ \cup {[id |-> Stmt.id, kind |-> "network", place |-> "NONE",
                               publicIp |-> FALSE, sgs |-> {}]},
            !.nums = @ \cup {<<Stmt.id, "maxAzs", Stmt.maxAzs>>,
                             <<Stmt.id, "natGateways", Stmt.natGateways>>},
            !.subnets = @ \cup VpcSubnets(Stmt)])

\* new <Construct>(this, id, props)
NewConstruct ==
  /\ At("New")
  /\ Put([Cur.g EXCEPT
            !.nodes = @ \cup {NodeRec(Stmt)},
            !.refs = @ \cup {<<Stmt.id, r[1], r[2]>> : r \in Stmt.refs},
            !.strs = @ \cup {<<Stmt.id, r[1], r[2]>> : r \in Stmt.strs},
            !.nums = @ \cup {<<Stmt.id, r[1], r[2]>> : r \in Stmt.nums}])

\* securityGroup.addIngressRule(peer, port, description)
AddIngressRule ==
  /\ At("addIngressRule")
  /\ Put([Cur.g EXCEPT !.rules = @ \cup {IngressRule(Stmt)}])

\* role.addManagedPolicy(ManagedPolicy.fromAwsManagedPolicyName(name))
AddManagedPolicy ==
  /\ At("addManagedPolicy")
  /\ Put([Cur.g EXCEPT !.strs = @ \cup {<<Stmt.role, "managedPolicy", Stmt.policy>>}])

\* role.addToPolicy(new PolicyStatement({actions, resources}))
AddToPolicy ==
  /\ At("addToPolicy")
  /\ Put([Cur.g EXCEPT
            !.strs = @ \cup {<<Stmt.role, "allow", Stmt.action>>},
            !.refs = @ \cup {<<Stmt.role, "resource", Stmt.resource>>}])

\* bucket.grantWrite(grantee): a write grant on the bucket for the grantee
GrantWrite ==
  /\ At("grantWrite")
  /\ Put([Cur.g EXCEPT !.refs = @ \cup {<<Stmt.grantee, "grantWrite", Stmt.bucket>>}])

\* logGroup.applyRemovalPolicy(policy)
ApplyRemovalPolicy ==
  /\ At("applyRemovalPolicy")
  /\ Put([Cur.g EXCEPT !.strs = @ \cup {<<Stmt.node, "removalPolicy", Stmt.policy>>}])

\* const userData = UserData.forLinux()
ForLinux ==
  /\ At("forLinux")
  /\ Put([Cur.g EXCEPT !.hasUserData = TRUE, !.userData = <<>>])

\* userData.addCommands(...)
UserDataAddCommands ==
  /\ At("addCommands")
  /\ Cur.g.hasUserData
  /\ Put([Cur.g EXCEPT !.userData = AddCommands(@, Stmt.lines)])

\* alb.addListener(id, {port, open})
AddListener ==
  /\ At("addListener")
  /\ Put([Cur.g EXCEPT
            !.nodes = @ \cup {[id |-> Stmt.id, kind |-> "load-balancer",
                               place |-> "NONE", publicIp |-> FALSE, sgs |-> {}]},
            !.refs = @ \cup {<<Stmt.id, "loadBalancer", Stmt.lb>>},
            !.nums = @ \cup {<<Stmt.id, "port", Stmt.port>>},
            !.rules = @ \cup ListenerRules(Cur.g, Stmt)])

\* listener.addTargets(id, {port, targets, healthCheck})
AddTargets ==
  /\ At("addTargets")
  /\ Put([Cur.g EXCEPT
            !.nodes = @ \cup {[id |-> Stmt.id, kind |-> "load-balancer",
                               place |-> "NONE", publicIp |-> FALSE, sgs |-> {}]},
            !.refs = @ \cup TargetRefs(Stmt),
            !.nums = @ \cup {<<Stmt.id, "port", Stmt.port>>,
                             <<Stmt.id, "healthCheckIntervalSeconds", 30>>},
            !.strs = @ \cup {<<Stmt.id, "healthCheckPath", "/">>},
            !.rules = @ \cup TargetRules(Cur.g, Stmt)])

\* new cdk.CfnOutput(this, id, {value})
NewCfnOutput ==
  /\ At("CfnOutput")
  /\ Put([Cur.g EXCEPT !.outputs = @ \cup {OutputOf(Stmt)}])

\* the constructor returns to the entry point
Return ==
  /\ phase = "assembly"
  /\ spc >= 1
  /\ spc = Len(Body(Cur.cls)) + 1
  /\ spc' = 0
  /\ pc' = pc + 1
  /\ UNCHANGED <<program, run, phase, apps, stacks, handed, q, eng, attrs, store,
                 rendered, scriptVars>>

\* the process ends: every stack built is synthesized and handed to the engine
ProcessExit ==
  /\ phase = "assembly"
  /\ spc = 0
  /\ pc = Len(Main(program)) + 1
  /\ handed' = handed \o [i \in 1..Len(stacks) |->
                            [cls |-> stacks[i].cls, g |-> stacks[i].g]]
  /\ phase' = "engine"
  /\ UNCHANGED <<program, run, pc, spc, apps, stacks, q, eng, attrs, store,
                 rendered, scriptVars>>

\* --------------------------------------------- external reconciliation
StmtIds(B) ==
  {B[i].id : i \in {j \in DOMAIN B :
                      B[j].op \in {"Vpc", "New", "addListener", "addTargets"}}}

AllIds == StmtIds(AWSstack) \cup StmtIds(Ec2LoggingStack)

\* addresses the cloud may give a resolved resource
CloudValues == {"a.example", "b.example"}

NoStore == [cls |-> "none", g |-> EmptyGraph]

Idle == [n \in AllIds |-> "Absent"]

\* everything the declaration says about one node
View(g, n) ==
  [node |-> NodeOf(g, n),
   refs |-> {r \in g.refs : r[1] = n},
   strs |-> {r \in g.strs : r[1] = n},
   nums |-> {r \in g.nums : r[1] = n},
   rules |-> {r \in g.rules : r.sg = n},
   subnets |-> {r \in g.subnets : r.vpc = n}]

\* the outcome of diffing node n of the handed graph against the store
Outcome(h, n) ==
  IF store.cls # h.cls \/ n \notin Ids(store.g) THEN "Created"
  ELSE IF View(store.g, n) = View(h.g, n) THEN "Unchanged"
  ELSE "Updated"

\* the engine takes the next handed graph: every node is Declared
Apply ==
  /\ phase = "engine"
  /\ q <= Len(handed)
  /\ eng = Idle
  /\ Len(rendered) < q
  /\ eng' = [n \in AllIds |-> IF n \in Ids(handed[q].g) THEN "Declared" ELSE "Absent"]
  /\ UNCHANGED <<program, run, phase, pc, spc, apps, stacks, handed, q, attrs,
                 store, rendered, scriptVars>>

\* the engine diffs the declared graph against its store
Diff ==
  /\ phase = "engine"
  /\ \E n \in AllIds : eng[n] = "Declared"
  /\ eng' = [n \in AllIds |-> IF eng[n] = "Declared" THEN "Diffed" ELSE eng[n]]
  /\ UNCHANGED <<program, run, phase, pc, spc, apps, stacks, handed, q, attrs,
                 store, rendered, scriptVars>>

\* a node is created, updated or left unchanged once its dependencies resolved
Change(n) ==
  /\ phase = "engine"
  /\ eng[n] = "Diffed"
  /\ \A d \in Deps(handed[q].g) : d[1] = n => eng[d[2]] = "Resolved"
  /\ eng' = [eng EXCEPT ![n] = Outcome(handed[q], n)]
  /\ UNCHANGED <<program, run, phase, pc, spc, apps, stacks, handed, q, attrs,
                 store, rendered, scriptVars>>

\* the attributes of node n that outputs of the graph defer on
Deferred(g, n) == {o.attr : o \in {x \in g.outputs : x.node = n}}

\* a node reaches Resolved and exposes its concrete attribute values
Resolve(n) ==
  /\ phase = "engine"
  /\ eng[n] \in {"Created", "Updated", "Unchanged"}
  /\ eng' = [eng EXCEPT ![n] = "Resolved"]
  /\ IF eng[n] = "Unchanged" \/ Deferred(handed[q].g, n) = {}
       THEN attrs' = attrs
       ELSE \E v \in CloudValues :
              attrs' = {t \in attrs : t[1] # n}
                         \cup {<<n, a, v>> : a \in Deferred(handed[q].g, n)}
  /\ UNCHANGED <<program, run, phase, pc, spc, apps, stacks, handed, q,
                 store, rendered, scriptVars>>

\* the outputs of a reconciled graph, each deferred reference made concrete
Outputs(g) ==
  UNION {{<<o.name, t[3]>> : t \in {x \in attrs : x[1] = o.node /\ x[2] = o.attr}}
           : o \in g.outputs}

\* reconciliation of the graph is complete: its outputs are rendered
Render ==
  /\ phase = "engine"
  /\ q <= Len(handed)
  /\ Len(rendered) < q
  /\ \A n \in Ids(handed[q].g) : eng[n] = "Resolved"
  /\ rendered' = Append(rendered, [cls |-> handed[q].cls, outs |-> Outputs(handed[q].g)])
  /\ store' = handed[q]
  /\ UNCHANGED <<program, run, phase, pc, spc, apps, stacks, handed, q, eng,
                 attrs, scriptVars>>

\* the engine is done with the graph
NextGraph ==
  /\ phase = "engine"
  /\ q <= Len(handed)
  /\ Len(rendered) = q
  /\ q' = q + 1
  /\ eng' = Idle
  /\ UNCHANGED <<program, run, phase, pc, spc, apps, stacks, handed, attrs,
                 store, rendered, scriptVars>>

\* every handed graph is reconciled
EngineDone ==
  /\ phase = "engine"
  /\ q = Len(handed) + 1
  /\ phase' = "idle"
  /\ UNCHANGED <<program, run, pc, spc, apps, stacks, handed, q, eng, attrs,
                 store, rendered, scriptVars>>

\* the same program is started again as a new process
Rerun ==
  /\ phase = "idle"
  /\ run < MaxRuns
  /\ run' = run + 1
  /\ phase' = "assembly"
  /\ pc' = 1
  /\ spc' = 0
  /\ apps' = 0
  /\ stacks' = <<>>
  /\ UNCHANGED <<program, handed, q, eng, attrs, store, rendered, scriptVars>>

\* ------------------------------------- the script generator on its own
\* const userData = UserData.forLinux()
ScriptForLinux ==
  /\ phase = "forLinux"
  /\ script' = <<>>
  /\ phase' = "addCommands"
  /\ UNCHANGED <<program, run, pc, spc, apps, stacks, handed, q, eng, attrs,
                 store, rendered, cmds, blob, split>>

\* userData.addCommands(...cmds)
ScriptAddCommands ==
  /\ phase = "addCommands"
  /\ script' = AddCommands(script, cmds)
  /\ phase' = "render"
  /\ UNCHANGED <<program, run, pc, spc, apps, stacks, handed, q, eng, attrs,
                 store, rendered, cmds, blob, split>>

\* the user data is rendered into the blob attached to the compute resource
ScriptRender ==
  /\ phase = "render"
  /\ blob' = RenderScript(script)
  /\ phase' = "split"
  /\ UNCHANGED <<program, run, pc, spc, apps, stacks, handed, q, eng, attrs,
                 store, rendered, cmds, script, split>>

\* the blob is read back line by line
ScriptSplit ==
  /\ phase = "split"
  /\ split' = SplitLines(blob)
  /\ phase' = "read"
  /\ UNCHANGED <<program, run, pc, spc, apps, stacks, handed, q, eng, attrs,
                 store, rendered, cmds, script, blob>>

\* the command lists: every list of up to MaxCmds lines of up to MaxLineLen
\* characters, and the two lists of the source
CommandLists ==
  {l \in UNION {[1..n -> Texts(Chars, MaxLineLen)] : n \in 1..MaxCmds} : TRUE}
    \cup {Chunks(WebCommands), Chunks(LogCommands)}

InitScript ==
  /\ program = "script"
  /\ run = 1
  /\ phase = "forLinux"
  /\ pc = 1
  /\ spc = 0
  /\ apps = 0
  /\ stacks = <<>>
  /\ handed = <<>>
  /\ q = 1
  /\ eng = Idle
  /\ attrs = {}
  /\ store = NoStore
  /\ rendered = <<>>
  /\ cmds \in CommandLists
  /\ script = <<>>
  /\ blob = <<>>
  /\ split = <<>>

NextScript ==
  \/ ScriptForLinux
  \/ ScriptAddCommands
  \/ ScriptRender
  \/ ScriptSplit

SpecScript == InitScript /\ [][NextScript]_vars

\* ------------------------------------------------------- specification
Init ==
  /\ program \in {"web", "logging"}
  /\ run = 1
  /\ phase = "assembly"
  /\ pc = 1
  /\ spc = 0
  /\ apps = 0
  /\ stacks = <<>>
  /\ handed = <<>>
  /\ q = 1
  /\ eng = Idle
  /\ attrs = {}
  /\ store = NoStore
  /\ rendered = <<>>
  /\ cmds = <<>>
  /\ script = <<>>
  /\ blob = <<>>
  /\ split = <<>>

Next ==
  \/ NewApp
  \/ NewStack
  \/ NewVpc
  \/ NewConstruct
  \/ AddIngressRule
  \/ AddManagedPolicy
  \/ AddToPolicy
  \/ GrantWrite
  \/ ApplyRemovalPolicy
  \/ ForLinux
  \/ UserDataAddCommands
  \/ AddListener
  \/ AddTargets
  \/ NewCfnOutput
  \/ Return
  \/ ProcessExit
  \/ Apply
  \/ Diff
  \/ \E n \in AllIds : Change(n)
  \/ \E n \in AllIds : Resolve(n)
  \/ Render
  \/ NextGraph
  \/ EngineDone
  \/ Rerun

Spec == Init /\ [][Next]_vars

\* ------------------------------------------------------------- properties
\* the graphs handed to the engine, and the graphs under assembly
Produced == Range(handed)
Assembling == {[cls |-> stacks[i].cls, g |-> stacks[i].g] : i \in DOMAIN stacks}
AllGraphs == Produced \cup Assembling

Balancers(g) == {n \in g.nodes : n.kind = "load-balancer" /\ n.sgs # {}}
BalancerGroups(g) == UNION {n.sgs : n \in Balancers(g)}
Compute(g) == {n \in g.nodes : n.kind = "compute"}
ComputeGroups(g) == UNION {n.sgs : n \in Compute(g)}
DbInstances(g) == {n \in g.nodes : n.kind = "database" /\ n.sgs # {}}

\* every balancer group admits TCP 80 from any address
BalancerOpen(g) ==
  \A sg \in BalancerGroups(g) :
    \E r \in g.rules : r.sg = sg /\ r.port = 80 /\ r.peerKind = "cidr" /\ r.peer = AnyIpv4

\* no compute group admits port 80 from anything but a balancer group
ComputeBehindBalancer(g) ==
  \A r \in g.rules :
    (r.sg \in ComputeGroups(g) /\ r.port = 80)
      => (r.peerKind = "sg" /\ r.peer \in BalancerGroups(g))

\* C1 as stated: in every graph produced (web stack and logging stack alike) the
\* balancer's group admits TCP 80 from any address and no compute group admits
\* port 80 from a source other than the balancer's group.
C1_Original ==
  \A h \in Produced : BalancerOpen(h.g) /\ ComputeBehindBalancer(h.g)

\* C1 amended: in every web-stack graph, at every step of assembly and once
\* produced, the balancer's group admits TCP 80 from any address and the fleet's
\* group admits port 80 only from the balancer's group, also after addTargets;
\* a produced logging-stack graph has no balancer and its instance's group
\* admits port 80 from any address.
C1_Amended ==
  /\ \A h \in AllGraphs :
       h.cls = "AWSstack" => BalancerOpen(h.g) /\ ComputeBehindBalancer(h.g)
  /\ \A h \in Produced :
       h.cls = "AWSstack" => Balancers(h.g) # {} /\ Compute(h.g) # {}
  /\ \A h \in Produced :
       h.cls = "Ec2LoggingStack" =>
         /\ Balancers(h.g) = {}
         /\ \A sg \in ComputeGroups(h.g) :
              \E r \in h.g.rules :
                r.sg = sg /\ r.port = 80 /\ r.peerKind = "cidr" /\ r.peer = AnyIpv4

\* the listener has registered the fleet and the graph is produced
C1_Witness ==
  \E h \in Produced :
    /\ h.cls = "AWSstack"
    /\ "WordPressFleet" \in Ids(h.g)
    /\ \E r \in h.g.rules :
         r.description = "Load balancer to target" /\ r.sg \in ComputeGroups(h.g)

\* the nodes and the internet as sources of traffic
Internet == [id |-> "internet", kind |-> "internet", place |-> "NONE",
             publicIp |-> TRUE, sgs |-> {}]

\* src can reach dst on port p by the declared rules
CanReach(g, src, dst, p) ==
  \E r \in g.rules :
    /\ r.sg \in dst.sgs
    /\ r.port = p
    /\ \/ r.peerKind = "cidr"
       \/ r.peerKind = "sg" /\ r.peer \in src.sgs

Ports(g) == {r.port : r \in g.rules}

\* C2: the database instance has exactly one security group; every ingress
\* rule of that group has the compute fleet's security group as its source
\* (a group reference, not a CIDR) on port 3306; no node outside the fleet's
\* group, nor the internet, can reach the database by the declared rules.
C2_DatabaseOnlyFromFleet ==
  \A h \in Produced : \A db \in DbInstances(h.g) :
    /\ Cardinality(db.sgs) = 1
    /\ \E r \in h.g.rules : r.sg \in db.sgs
    /\ \A r \in h.g.rules :
         r.sg \in db.sgs =>
           r.peerKind = "sg" /\ r.peer \in ComputeGroups(h.g) /\ r.port = 3306
    /\ \A src \in h.g.nodes \cup {Internet} : \A p \in Ports(h.g) :
         CanReach(h.g, src, db, p) => src.sgs \cap ComputeGroups(h.g) # {}

C2_Witness ==
  \E h \in Produced : \E db \in DbInstances(h.g) : \E n \in Compute(h.g) :
    CanReach(h.g, n, db, 3306)

\* C3: in every graph, subnets of different types never share an address
\* block, and every resource placed in private subnets has such subnets to be
\* placed in, has a NAT gateway for its outbound path, has no public address
\* and no ingress rule whose source is any address.
C3_PrivateOnlyEgress ==
  \A h \in AllGraphs :
    /\ \A s1 \in h.g.subnets : \A s2 \in h.g.subnets :
         (s1.vpc = s2.vpc /\ (s1.type # s2.type \/ s1.az # s2.az \/ s1.group # s2.group))
           => s1.cidr # s2.cidr
    /\ \A n \in h.g.nodes :
         n.place = "PRIVATE_WITH_EGRESS" =>
           /\ \E sn \in h.g.subnets : sn.type = n.place
           /\ \E t \in h.g.nums : t[2] = "natGateways" /\ t[3] > 0
           /\ ~n.publicIp
           /\ \A r \in h.g.rules :
                r.sg \in n.sgs => ~(r.peerKind = "cidr" /\ r.peer = AnyIpv4)

C3_Witness ==
  \E h \in Produced :
    /\ \E n \in Compute(h.g) : n.place = "PRIVATE_WITH_EGRESS"
    /\ \E n \in DbInstances(h.g) : n.place = "PRIVATE_WITH_EGRESS"
    /\ \E s1 \in h.g.subnets : \E s2 \in h.g.subnets :
         s1.type = "PUBLIC" /\ s2.type = "PRIVATE_WITH_EGRESS"

\* a relation is acyclic when removing edges into sinks empties it
RECURSIVE Acyclic(_)
Acyclic(E) ==
  IF E = {} THEN TRUE
  ELSE LET toSinks == {e \in E : ~\E f \in E : f[1] = e[2]}
       IN  IF toSinks = {} THEN FALSE ELSE Acyclic(E \ toSinks)

\* C4: after every step of assembly and at hand-off the dependency relation
\* is acyclic, and every node named by a parameter reference, an attached
\* group, a rule source or an output is a node of the graph.
C4_AcyclicNoDangling ==
  \A h \in AllGraphs :
    /\ Acyclic(Deps(h.g))
    /\ \A d \in Deps(h.g) : d[1] \in Ids(h.g) /\ d[2] \in Ids(h.g)
    /\ \A o \in h.g.outputs : o.node \in Ids(h.g)

\* the compute group references the balancer group and the fleet is a target
C4_Witness ==
  \E h \in AllGraphs :
    /\ <<"EC2SecurityGroup", "ALBSecurityGroup">> \in Deps(h.g)
    /\ <<"WordPressFleet", "WordPressASG">> \in Deps(h.g)
    /\ <<"HTTPListener", "WordPressFleet">> \in Deps(h.g)

\* C5: the lines read back from the generated blob are exactly the command
\* lines passed, in the same order.
C5_LinesPreserved ==
  phase = "read" => split = cmds

\* the list with the embedded file-write block has been generated and read
C5_Witness ==
  /\ phase = "read"
  /\ cmds = Chunks(LogCommands)
  /\ \E i \in DOMAIN split : \E j \in DOMAIN split :
       i < j /\ split[i] = <<LogCommands[6]>> /\ split[j] = <<"EOF">>

\* C6: any two graphs the same stack class produced, in one process or in
\* two runs of the process, are equal.
C6_Deterministic ==
  \A i \in DOMAIN handed : \A j \in DOMAIN handed :
    handed[i].cls = handed[j].cls => handed[i].g = handed[j].g

\* graphs of two different runs have been produced
C6_Witness ==
  /\ run = 2
  /\ phase = "engine"
  /\ Len(handed) >= 2
  /\ handed[1].g.nodes # {}

AttrValue(n, a) == CHOOSE v \in CloudValues : <<n, a, v>> \in attrs

\* C8: outputs of a graph are rendered only when every node of it is
\* Resolved; the web stack renders exactly LoadBalancerDNS with the resolved
\* DNS name of the balancer and DBEndpoint with the resolved endpoint address
\* of the database, and the logging stack renders none.
C8_OutputsAfterResolved ==
  /\ Len(rendered) <= q
  /\ (Len(rendered) = q /\ q <= Len(handed)) =>
       \A n \in Ids(handed[q].g) : eng[n] = "Resolved"
  /\ \A k \in DOMAIN rendered :
       /\ rendered[k].cls = handed[k].cls
       /\ rendered[k].cls = "AWSstack" =>
            /\ \E v \in CloudValues : <<"MyALB", "loadBalancerDnsName", v>> \in attrs
            /\ \E v \in CloudValues :
                 <<"MyRDSInstance", "dbInstanceEndpointAddress", v>> \in attrs
            /\ rendered[k].outs =
                 {<<"LoadBalancerDNS", AttrValue("MyALB", "loadBalancerDnsName")>>,
                  <<"DBEndpoint",
                    AttrValue("MyRDSInstance", "dbInstanceEndpointAddress")>>}
       /\ rendered[k].cls = "Ec2LoggingStack" => rendered[k].outs = {}

\* the web stack's outputs are rendered, the two values being different
C8_Witness ==
  /\ Len(rendered) >= 1
  /\ rendered[1].cls = "AWSstack"
  /\ AttrValue("MyALB", "loadBalancerDnsName")
       # AttrValue("MyRDSInstance", "dbInstanceEndpointAddress")

\* log events, each a sequence of terms
Events == {<<>>, <<"ERROR">>, <<"GET", "200">>, <<"GET", "ERROR", "500">>}

\* a filter pattern matches an event: the empty pattern matches every event,
\* a literal pattern the events that hold the term
Matches(pattern, e) == pattern = AllEvents \/ \E i \in DOMAIN e : e[i] = pattern

\* the destinations an event of log group lg is forwarded to
Destinations(g, lg, e) ==
  {d[3] : d \in {x \in g.refs :
                   /\ x[2] = "destination"
                   /\ <<x[1], "logGroup", lg>> \in g.refs
                   /\ \E t \in g.strs :
                        t[1] = x[1] /\ t[2] = "filterPattern" /\ Matches(t[3], e)}}

\* C9: the log group is declared with retention 7, and its subscription
\* filter forwards every event to the log-shipping function.
C9_RetentionAndFilter ==
  \A h \in Produced :
    h.cls = "Ec2LoggingStack" =>
      /\ {t[3] : t \in {x \in h.g.nums : x[1] = "AppLogGroup" /\ x[2] = "retention"}} = {7}
      /\ \A e \in Events : Destinations(h.g, "AppLogGroup", e) = {"LogProcessor"}

C9_Witness ==
  \E h \in Produced :
    /\ h.cls = "Ec2LoggingStack"
    /\ "LogFilter" \in Ids(h.g)
    /\ Destinations(h.g, "AppLogGroup", <<"GET", "200">>) = {"LogProcessor"}

\* C10 as stated: when one run of the logging entry point has finished
\* assembly, exactly one application and exactly one Ec2LoggingStack graph
\* exist in the process.
C10_Original ==
  (program = "logging" /\ phase # "assembly") => (apps = 1 /\ Len(stacks) = 1)

====
